---------------------------- MODULE Spec2Model ----------------------------
(***************************************************************************)
(* Model of the no-entry-zone challan system: the VehicleDetection capture *)
(* component (sampling timer, manual triggers, detection cycles), the      *)
(* detection pipeline (region filter, dimension estimate, classifier,      *)
(* plate pattern, fine), the challan record store with its creation and    *)
(* payment operations, and the ChallanPayment page.                        *)
(***************************************************************************)
EXTENDS Integers, Sequences, FiniteSets, TLC

(* ------------------------------- bounds -------------------------------- *)
MaxChallans == 2      \* records the store may hold
MaxCycles == 2        \* processFrame invocations in flight at once
MaxLoads == 1         \* image.onload callbacks pending at once
MaxContours == 2      \* contours the vision capability reports per frame
MaxClock == 2         \* server timestamps handed out
MaxPayCalls == 2      \* payChallan calls in flight at once
MaxEntries == 1       \* entries of an imported JSON file

(* --------------------------- program constants ------------------------- *)
NoTime == 0 - 1       \* an absent timestamp (paidAt not set)
NoHandle == 0         \* processingInterval === null

Locations == {"Main Street No-Entry Zone", "School Zone"}
Methods == {"card", "wallet"}
NoMethod == "none"
NoUser == "none"

(* camera parameters with the distance of a nearby vehicle *)
cameraParams_near == [focalLength |-> 35, sensorWidth |-> 235, distance |-> 1]

(* cameraParams literal of processFrame (sensorWidth 23.5, in tenths) *)
cameraParams == [focalLength |-> 35, sensorWidth |-> 235, distance |-> 10000]

(* contours the vision capability may report: bounding box and contour area *)
Contours ==
  { [width |-> 40,  height |-> 40, area |-> 1200],
    [width |-> 100, height |-> 40, area |-> 3000],
    [width |-> 40,  height |-> 40, area |-> 1000] }

(* texts the OCR capability may return, as sequences of characters *)
OcrTexts ==
  { <<"X"," ","A","B"," ","1","2","C","D","3","4","5","6">>,
    <<"A","B","1","C","D","3","4","5">> }

Letters == {"A", "B", "C", "D", "X"}
Digits == {"1", "2", "3", "4", "5", "6"}
Spaces == {" "}

VARIABLES
  permPending,        \* the getUserMedia promise of the mount effect is unsettled
  cameraPermission,   \* state cameraPermission
  isWebcamActive,     \* state isWebcamActive
  processingInterval, \* state processingInterval (a timer handle, NoHandle = null)
  timers,             \* the browser's live intervals: [id, loc] (loc: closure's location)
  webcamRef,          \* webcamRef.current is non-null
  uploadedVideo,      \* state uploadedVideo is non-null (the <video> is mounted)
  isProcessing,       \* state isProcessing
  processingMessage,  \* state processingMessage
  location,           \* state location
  imageLoads,         \* pending image.onload callbacks, each with its closure's location
  cycles,             \* processFrame invocations suspended at an await
  violations,         \* state violations (ids, newest first)
  showSuccessAlert,   \* state showSuccessAlert
  showErrorAlert,     \* state showErrorAlert
  errorMessage,       \* state errorMessage
  challans,           \* the record store's collection 'challans' (id = index)
  clock,              \* the store's server time
  payCalls,           \* payChallan calls whose updateDoc has not settled
  page,               \* the ChallanPayment page
  lastPay,            \* observation: the last settled payment action
  statistics,         \* AdminDashboard state statistics
  delivered,          \* observation: parity of the snapshots the dashboard handled
  probe               \* a call of one of the pure functions: its argument and result

capVars == << permPending, cameraPermission, isWebcamActive, processingInterval,
              timers, webcamRef, uploadedVideo, isProcessing, processingMessage,
              location, imageLoads, cycles, violations, showSuccessAlert,
              showErrorAlert, errorMessage >>
storeVars == << challans, clock >>
payVars == << payCalls, page, lastPay >>
adminVars == << statistics, delivered >>
vars == << capVars, storeVars, payVars, adminVars, probe >>

(* ------------------------- detection pipeline -------------------------- *)

(* detectVehicles: the contours kept as vehicle regions, in contour order. *)
(* aspectRatio = width / height, compared by cross-multiplication.         *)
KeepsContour(c) ==
  /\ c.area > 1000
  /\ 2 * c.width > c.height          \* aspectRatio > 0.5
  /\ 2 * c.width < 5 * c.height      \* aspectRatio < 2.5

RECURSIVE detectVehicles(_)
detectVehicles(contours) ==
  IF contours = <<>> THEN <<>>
  ELSE LET c == Head(contours)
           rest == detectVehicles(Tail(contours))
       IN IF KeepsContour(c)
            THEN << [width |-> c.width, height |-> c.height, area |-> c.area] >> \o rest
            ELSE rest

(* calculateVehicleDimensions: metres as fractions over the common         *)
(* denominator den = 2 * focalLength (length = realWidth * 2.5).           *)
calculateVehicleDimensions_sensor(boundingBox, params) ==
  [ width  |-> 2 * boundingBox.width * params.distance,
    height |-> 2 * boundingBox.height * params.distance,
    length |-> 5 * boundingBox.width * params.distance,
    den    |-> 2 * params.sensorWidth ]

calculateVehicleDimensions(boundingBox, params) ==
  [ width  |-> 2 * boundingBox.width * params.distance,
    height |-> 2 * boundingBox.height * params.distance,
    length |-> 5 * boundingBox.width * params.distance,
    den    |-> 2 * params.focalLength ]

(* x / den < n / 10 *)
Below(x, den, tenths) == 10 * x < tenths * den

classifyVehicleType_inclusive(d) ==
  IF 10 * d.width <= 13 * d.den /\ Below(d.length, d.den, 25) THEN "Motorcycle"
  ELSE IF Below(d.width, d.den, 20) /\ Below(d.height, d.den, 18)
          /\ Below(d.length, d.den, 50) THEN "Car"
  ELSE IF Below(d.width, d.den, 23) /\ Below(d.height, d.den, 25)
          /\ Below(d.length, d.den, 60) THEN "Van"
  ELSE IF Below(d.width, d.den, 26) /\ Below(d.height, d.den, 35)
          /\ Below(d.length, d.den, 120) THEN "Bus"
  ELSE "Truck"

classifyVehicleType(d) ==
  IF Below(d.width, d.den, 13) /\ Below(d.length, d.den, 25) THEN "Motorcycle"
  ELSE IF Below(d.width, d.den, 20) /\ Below(d.height, d.den, 18)
          /\ Below(d.length, d.den, 50) THEN "Car"
  ELSE IF Below(d.width, d.den, 23) /\ Below(d.height, d.den, 25)
          /\ Below(d.length, d.den, 60) THEN "Van"
  ELSE IF Below(d.width, d.den, 26) /\ Below(d.height, d.den, 35)
          /\ Below(d.length, d.den, 120) THEN "Bus"
  ELSE "Truck"

(* calculateFine: baseFines[vehicleType] || 1000 *)
calculateFine(vehicleType) ==
  CASE vehicleType = "Motorcycle" -> 500
    [] vehicleType = "Car" -> 1000
    [] vehicleType = "Van" -> 1500
    [] vehicleType = "Bus" -> 2000
    [] vehicleType = "Truck" -> 2500
    [] OTHER -> 1000

(* The plate pattern /[A-Z]{2}\s*\d{2}\s*[A-Z]{2}\s*\d{4}/g on a text.      *)
RECURSIVE SkipSpaces(_, _)
SkipSpaces(t, i) ==
  IF i <= Len(t) /\ t[i] \in Spaces THEN SkipSpaces(t, i + 1) ELSE i

ClassRun(t, i, n, S) ==
  /\ i + n - 1 <= Len(t)
  /\ \A k \in i..(i + n - 1) : t[k] \in S

(* the index after a match starting at i, 0 when there is none *)
MatchEnd(t, i) ==
  IF ~ClassRun(t, i, 2, Letters) THEN 0
  ELSE LET b == SkipSpaces(t, i + 2) IN
    IF ~ClassRun(t, b, 2, Digits) THEN 0
    ELSE LET c == SkipSpaces(t, b + 2) IN
      IF ~ClassRun(t, c, 2, Letters) THEN 0
      ELSE LET d == SkipSpaces(t, c + 2) IN
        IF ClassRun(t, d, 4, Digits) THEN d + 4 ELSE 0

(* matches ? matches[0] : null, null being the empty text *)
RECURSIVE FirstMatch(_, _)
FirstMatch(t, i) ==
  IF i > Len(t) THEN <<>>
  ELSE IF MatchEnd(t, i) > 0 THEN SubSeq(t, i, MatchEnd(t, i) - 1)
  ELSE FirstMatch(t, i + 1)

(* the last match of the text instead of the first *)
RECURSIVE LastMatch(_, _)
LastMatch(t, i) ==
  IF i < 1 THEN <<>>
  ELSE IF MatchEnd(t, i) > 0 THEN SubSeq(t, i, MatchEnd(t, i) - 1)
  ELSE LastMatch(t, i - 1)

detectNumberPlate_lastMatch(ocr) ==
  IF ocr.ok THEN LastMatch(ocr.text, Len(ocr.text)) ELSE <<>>

(* detectNumberPlate: a recognition error is caught and yields null *)
detectNumberPlate(ocr) ==
  IF ocr.ok THEN FirstMatch(ocr.text, 1) ELSE <<>>

OcrOutcomes ==
  { [ok |-> TRUE, text |-> t] : t \in OcrTexts } \cup { [ok |-> FALSE, text |-> <<>>] }

(* ------------------------------ the store ------------------------------ *)

NoDimensions == [width |-> 0, height |-> 0, length |-> 0, den |-> 1]

Ids == 1..MaxChallans
Exists(id) == id \in 1..Len(challans)

(* addDoc(collection(firestore, 'challans'), data): the new id is the index *)
addDoc(store, data) == Append(store, data)

(* updateDoc(ref, fields): merges the fields into an existing document *)
updateDoc(store, id, fields) ==
  [store EXCEPT ![id] =
     [k \in DOMAIN store[id] |->
        IF k \in DOMAIN fields THEN fields[k] ELSE store[id][k]]]

(* processVehicleFrame without its check of the plate *)
processVehicleFrame_noPlateCheck(imageData, loc, params, ocr, now) ==
  LET numberPlate == detectNumberPlate(ocr)
      dimensions == calculateVehicleDimensions(
                      [width |-> imageData.width, height |-> imageData.height], params)
      vehicleType == classifyVehicleType(dimensions)
  IN [ found |-> TRUE,
       doc |-> [ vehicleNumber |-> numberPlate,
                 vehicleType |-> vehicleType,
                 location |-> loc,
                 timestamp |-> now,
                 amount |-> calculateFine(vehicleType),
                 status |-> "pending",
                 violationType |-> "No-Entry Zone Violation",
                 dimensions |-> dimensions,
                 userId |-> NoUser,
                 paidAt |-> NoTime,
                 paymentMethod |-> NoMethod,
                 via |-> "auto" ] ]

(* processVehicleFrame with a violation type that depends on the vehicle *)
processVehicleFrame_violationByType(imageData, loc, params, ocr, now) ==
  LET numberPlate == detectNumberPlate(ocr)
      dimensions == calculateVehicleDimensions(
                      [width |-> imageData.width, height |-> imageData.height], params)
      vehicleType == classifyVehicleType(dimensions)
  IN [ found |-> numberPlate # <<>>,
       doc |-> [ vehicleNumber |-> numberPlate,
                 vehicleType |-> vehicleType,
                 location |-> loc,
                 timestamp |-> now,
                 amount |-> calculateFine(vehicleType),
                 status |-> "pending",
                 violationType |-> IF vehicleType = "Truck" THEN "speeding"
                                   ELSE "No-Entry Zone Violation",
                 dimensions |-> dimensions,
                 userId |-> NoUser,
                 paidAt |-> NoTime,
                 paymentMethod |-> NoMethod,
                 via |-> "auto" ] ]

(* processVehicleFrame: the document it writes, when it writes one *)
processVehicleFrame(imageData, loc, params, ocr, now) ==
  LET numberPlate == detectNumberPlate(ocr)
      dimensions == calculateVehicleDimensions(
                      [width |-> imageData.width, height |-> imageData.height], params)
      vehicleType == classifyVehicleType(dimensions)
      fineAmount == calculateFine(vehicleType)
  IN [ found |-> numberPlate # <<>>,
       doc |-> [ vehicleNumber |-> numberPlate,
                 vehicleType |-> vehicleType,
                 location |-> loc,
                 timestamp |-> now,
                 amount |-> fineAmount,
                 status |-> "pending",
                 violationType |-> "No-Entry Zone Violation",
                 dimensions |-> dimensions,
                 userId |-> NoUser,
                 paidAt |-> NoTime,
                 paymentMethod |-> NoMethod,
                 via |-> "auto" ] ]

(* ------------------------- VehicleDetection ---------------------------- *)

(* The render: <Webcam ref={webcamRef}> is mounted only while isWebcamActive, *)
(* and React clears the ref when it unmounts.                                 *)
WebcamMounted(active) == active

(* The catch and finally blocks of processFrame. *)
CycleFails ==
  /\ errorMessage' = "Error processing video frame"
  /\ showErrorAlert' = TRUE
  /\ isProcessing' = FALSE
  /\ processingMessage' = ""

(* processFrame up to its first await (detectVehicles); ctxOk: the canvas  *)
(* context and the frame copy are available.                               *)
processFrame(origin, loc, ctxOk) ==
  IF ctxOk
    THEN /\ isProcessing' = TRUE
         /\ processingMessage' = "Detecting vehicles..."
         /\ cycles' = Append(cycles, [origin |-> origin, loc |-> loc,
                                      pc |-> "detect", todo |-> <<>>,
                                      index |-> 0])
         /\ UNCHANGED << errorMessage, showErrorAlert >>
    ELSE /\ CycleFails
         /\ UNCHANGED cycles

Remove(seq, i) == SubSeq(seq, 1, i - 1) \o SubSeq(seq, i + 1, Len(seq))

FreeHandle == CHOOSE n \in 1..(Cardinality(timers) + 1) : \A t \in timers : t.id # n

(* useEffect on mount: getUserMedia settles *)
getUserMediaSettles ==
  /\ permPending
  /\ permPending' = FALSE
  /\ \E granted \in BOOLEAN : cameraPermission' = granted
  /\ UNCHANGED << isWebcamActive, processingInterval, timers, webcamRef, uploadedVideo,
                  isProcessing, processingMessage, location, imageLoads, cycles,
                  violations, showSuccessAlert, showErrorAlert, errorMessage,
                  storeVars, payVars, adminVars, probe >>

(* the location selector's onChange *)
setLocation ==
  /\ \E l \in Locations : l # location /\ location' = l
  /\ UNCHANGED << permPending, cameraPermission, isWebcamActive, processingInterval,
                  timers, webcamRef, uploadedVideo, isProcessing, processingMessage,
                  imageLoads, cycles, violations, showSuccessAlert, showErrorAlert,
                  errorMessage, storeVars, payVars, adminVars, probe >>

(* toggleWebcam without its test of cameraPermission *)
toggleWebcam_noPermissionTest ==
  /\ IF isWebcamActive /\ processingInterval # NoHandle
       THEN /\ timers' = { t \in timers : t.id # processingInterval }
            /\ processingInterval' = NoHandle
       ELSE IF ~isWebcamActive /\ webcamRef
         THEN /\ timers' = timers \cup {[id |-> FreeHandle, loc |-> location]}
              /\ processingInterval' = FreeHandle
         ELSE UNCHANGED << timers, processingInterval >>
  /\ isWebcamActive' = ~isWebcamActive
  /\ webcamRef' = WebcamMounted(~isWebcamActive)
  /\ UNCHANGED << errorMessage, showErrorAlert >>
  /\ UNCHANGED << permPending, cameraPermission, uploadedVideo, isProcessing,
                  processingMessage, location, imageLoads, cycles, violations,
                  showSuccessAlert, storeVars, payVars, adminVars, probe >>

toggleWebcam ==
  /\ IF ~isWebcamActive /\ ~cameraPermission
       THEN /\ errorMessage' = "Camera permission is required"
            /\ showErrorAlert' = TRUE
            /\ UNCHANGED << isWebcamActive, processingInterval, timers, webcamRef >>
       ELSE /\ IF isWebcamActive /\ processingInterval # NoHandle
                 THEN /\ timers' = { t \in timers : t.id # processingInterval }
                      /\ processingInterval' = NoHandle
                 ELSE IF ~isWebcamActive /\ webcamRef
                   THEN /\ timers' = timers \cup {[id |-> FreeHandle, loc |-> location]}
                        /\ processingInterval' = FreeHandle
                   ELSE UNCHANGED << timers, processingInterval >>
            /\ isWebcamActive' = ~isWebcamActive
            /\ webcamRef' = WebcamMounted(~isWebcamActive)
            /\ UNCHANGED << errorMessage, showErrorAlert >>
  /\ UNCHANGED << permPending, cameraPermission, uploadedVideo, isProcessing,
                  processingMessage, location, imageLoads, cycles, violations,
                  showSuccessAlert, storeVars, payVars, adminVars, probe >>

(* Capture Frame: rendered while isWebcamActive, disabled while isProcessing. *)
(* shot: getScreenshot() returned an image.                                   *)
handleWebcamCapture ==
  /\ isWebcamActive /\ ~isProcessing
  /\ Len(imageLoads) < MaxLoads
  /\ \E shot \in BOOLEAN :
       imageLoads' = IF webcamRef /\ shot THEN Append(imageLoads, location)
                                         ELSE imageLoads
  /\ UNCHANGED << permPending, cameraPermission, isWebcamActive, processingInterval,
                  timers, webcamRef, uploadedVideo, isProcessing, processingMessage,
                  location, cycles, violations, showSuccessAlert, showErrorAlert,
                  errorMessage, storeVars, payVars, adminVars, probe >>

handleVideoUpload ==
  /\ uploadedVideo' = TRUE
  /\ UNCHANGED << permPending, cameraPermission, isWebcamActive, processingInterval,
                  timers, webcamRef, isProcessing, processingMessage, location,
                  imageLoads, cycles, violations, showSuccessAlert, showErrorAlert,
                  errorMessage, storeVars, payVars, adminVars, probe >>

(* Process Video: rendered once a video is uploaded, disabled while isProcessing *)
handleProcessVideo ==
  /\ uploadedVideo /\ ~isProcessing
  /\ Len(cycles) < MaxCycles
  /\ \E ctxOk \in BOOLEAN : processFrame("manual", location, ctxOk)
  /\ UNCHANGED << permPending, cameraPermission, isWebcamActive, processingInterval,
                  timers, webcamRef, uploadedVideo, location, imageLoads, violations,
                  showSuccessAlert, storeVars, payVars, adminVars, probe >>

(* The browser's runnable tasks: a loaded screenshot image (image.onload),   *)
(* a tick of a live interval, the timeout that hides the success alert.      *)
Tasks ==
  { <<"load", i>> : i \in 1..Len(imageLoads) }
    \cup { <<"interval", t.id>> : t \in timers }
    \cup (IF showSuccessAlert THEN { <<"hideSuccess", 0>> } ELSE {})

TimerOf(id) == CHOOSE t \in timers : t.id = id

(* image.onload of handleWebcamCapture: processFrame(canvas) *)
imageOnload(i, ctxOk) ==
  /\ Len(cycles) < MaxCycles
  /\ processFrame("manual", imageLoads[i], ctxOk)
  /\ imageLoads' = Remove(imageLoads, i)
  /\ UNCHANGED showSuccessAlert

(* the setInterval callback of toggleWebcam *)
intervalCallback(id, ctxOk) ==
  /\ IF webcamRef
       THEN /\ Len(cycles) < MaxCycles
            /\ processFrame("timer", TimerOf(id).loc, ctxOk)
       ELSE UNCHANGED << isProcessing, processingMessage, cycles, errorMessage,
                         showErrorAlert >>
  /\ UNCHANGED << imageLoads, showSuccessAlert >>

(* setTimeout(() => setShowSuccessAlert(false), 3000) *)
hideSuccessAlert ==
  /\ showSuccessAlert' = FALSE
  /\ UNCHANGED << isProcessing, processingMessage, cycles, errorMessage,
                  showErrorAlert, imageLoads >>

eventLoopTask ==
  /\ \E task \in Tasks, ctxOk \in BOOLEAN :
       CASE task[1] = "load" -> imageOnload(task[2], ctxOk)
         [] task[1] = "interval" -> intervalCallback(task[2], ctxOk)
         [] OTHER -> hideSuccessAlert
  /\ UNCHANGED << permPending, cameraPermission, isWebcamActive, processingInterval,
                  timers, webcamRef, uploadedVideo, location, violations,
                  storeVars, payVars, adminVars, probe >>

ContourSeqs == UNION { [1..n -> Contours] : n \in 0..MaxContours }

DetectOutcomes ==
  { [ok |-> TRUE, contours |-> cs] : cs \in ContourSeqs }
    \cup { [ok |-> FALSE, contours |-> <<>>] }

(* processFrame resumes after await detectVehicles(imageSource) *)
detectVehiclesSettles ==
  /\ \E i \in 1..Len(cycles), outcome \in DetectOutcomes :
       LET vehicles == detectVehicles(outcome.contours) IN
       /\ cycles[i].pc = "detect"
       /\ IF ~outcome.ok
            THEN /\ CycleFails
                 /\ cycles' = Remove(cycles, i)
            ELSE IF vehicles = <<>>
              THEN /\ isProcessing' = FALSE
                   /\ processingMessage' = ""
                   /\ cycles' = Remove(cycles, i)
                   /\ UNCHANGED << errorMessage, showErrorAlert >>
              ELSE /\ processingMessage' = "Processing detected vehicles..."
                   /\ cycles' = [cycles EXCEPT ![i].pc = "vehicle", ![i].todo = vehicles]
                   /\ UNCHANGED << isProcessing, errorMessage, showErrorAlert >>
  /\ UNCHANGED << permPending, cameraPermission, isWebcamActive, processingInterval,
                  timers, webcamRef, uploadedVideo, location, imageLoads, violations,
                  showSuccessAlert, storeVars, payVars, adminVars, probe >>

(* One pass of the per-vehicle loop of processFrame in the i-th cycle: the   *)
(* crop of the region (canvas: "ok", "skip" when vehicleCtx is null,         *)
(* "throw"), the awaited processVehicleFrame and the handling of its result. *)
vehicleStepWith(i, canvas, ocr, storeOk) ==
  LET c == cycles[i]
      r == processVehicleFrame(Head(c.todo), c.loc, cameraParams, ocr, clock)
      result == canvas = "ok" /\ r.found /\ storeOk
      rest == Tail(c.todo)
  IN
  /\ c.pc = "vehicle"
  /\ result => Len(challans) < MaxChallans
  /\ IF canvas = "throw"
       THEN /\ CycleFails
            /\ cycles' = Remove(cycles, i)
            /\ UNCHANGED << challans, violations, showSuccessAlert >>
       ELSE /\ IF result
                 THEN /\ challans' = addDoc(challans, r.doc)
                      /\ violations' = << Len(challans) + 1 >> \o violations
                      /\ showSuccessAlert' = TRUE
                 ELSE UNCHANGED << challans, violations, showSuccessAlert >>
            /\ IF rest = <<>>
                 THEN /\ isProcessing' = FALSE
                      /\ processingMessage' = ""
                      /\ cycles' = Remove(cycles, i)
                 ELSE /\ cycles' = [cycles EXCEPT ![i].todo = rest, ![i].index = @ + 1]
                      /\ UNCHANGED << isProcessing, processingMessage >>
            /\ UNCHANGED << errorMessage, showErrorAlert >>
  /\ UNCHANGED << permPending, cameraPermission, isWebcamActive, processingInterval,
                  timers, webcamRef, uploadedVideo, location, imageLoads,
                  clock, payVars, adminVars, probe >>

CanvasOutcomes == {"ok", "skip", "throw"}

vehicleStep ==
  \E i \in 1..Len(cycles), canvas \in CanvasOutcomes,
     ocr \in OcrOutcomes, storeOk \in BOOLEAN :
       vehicleStepWith(i, canvas, ocr, storeOk)

(* Generate Challan on a listed violation, were its computed amount written *)
(* back to the stored record                                                *)
handleGenerateChallan_persist ==
  /\ \E k \in 1..Len(violations) :
       /\ violations' = SelectSeq(violations, LAMBDA id : id # violations[k])
       /\ challans' = [challans EXCEPT ![violations[k]].amount = 1000]
  /\ showSuccessAlert' = TRUE
  /\ UNCHANGED << permPending, cameraPermission, isWebcamActive, processingInterval,
                  timers, webcamRef, uploadedVideo, isProcessing, processingMessage,
                  location, imageLoads, cycles, showErrorAlert, errorMessage, clock,
                  payVars, adminVars, probe >>

(* Generate Challan on a listed violation *)
handleGenerateChallan ==
  /\ \E k \in 1..Len(violations) :
       violations' = SelectSeq(violations, LAMBDA id : id # violations[k])
  /\ showSuccessAlert' = TRUE
  /\ UNCHANGED << permPending, cameraPermission, isWebcamActive, processingInterval,
                  timers, webcamRef, uploadedVideo, isProcessing, processingMessage,
                  location, imageLoads, cycles, showErrorAlert, errorMessage, storeVars, payVars, adminVars, probe >>

(* --------------------------- creation paths ---------------------------- *)

(* The fine tables of the data files (vehicleData.json: violations,          *)
(* vehicles; challanData.json: violationTypes, vehicleTypes): a fine amount  *)
(* per violation type and a base amount per vehicle type.                    *)
violationLookup(v) ==
  CASE v = "speeding" -> [amount |-> 1000]
    [] v = "redLight" -> [amount |-> 1500]
    [] v = "No-Entry Zone Violation" -> [amount |-> 500]

vehicleLookup(t) ==
  CASE t = "car" -> [baseAmount |-> 500]
    [] t = "truck" -> [baseAmount |-> 1000]
    [] t = "Motorcycle" -> [baseAmount |-> 500]
    [] t = "Car" -> [baseAmount |-> 1000]
    [] t = "Van" -> [baseAmount |-> 1500]
    [] t = "Bus" -> [baseAmount |-> 2000]
    [] t = "Truck" -> [baseAmount |-> 2500]

ViolationTypes == {"speeding"}
VehicleTypes == {"car", "truck"}
SamplePlate == <<"A","B","1","2","C","D","3","4","5","6">>

(* getChallanAmount of challanUtils *)
getChallanAmount(violationType, vehicleType) ==
  LET violationAmount == violationLookup(violationType).amount
      vehicleBaseAmount == vehicleLookup(vehicleType).baseAmount
  IN violationAmount + vehicleBaseAmount

(* the amount handleAddChallan computes for the form's types *)
addChallanAmount_violationOnly(violationType, vehicleType) ==
  violationLookup(violationType).amount

addChallanAmount(violationType, vehicleType) ==
  violationLookup(violationType).amount + vehicleLookup(vehicleType).baseAmount

(* AdminDashboard.handleAddChallan with the form's current values *)
handleAddChallan ==
  /\ \E vt \in VehicleTypes, viol \in ViolationTypes, storeOk \in BOOLEAN :
       LET challanData ==
             [ vehicleNumber |-> SamplePlate,
               vehicleType |-> vt,
               violationType |-> viol,
               location |-> "School Zone",
               status |-> "pending",
               timestamp |-> clock,
               userId |-> "user123",
               amount |-> addChallanAmount(viol, vt),
               dimensions |-> NoDimensions,
               paidAt |-> NoTime,
               paymentMethod |-> NoMethod,
               via |-> "manual" ]
       IN /\ storeOk => Len(challans) < MaxChallans
          /\ challans' = IF storeOk THEN addDoc(challans, challanData) ELSE challans
  /\ UNCHANGED << capVars, clock, payVars, adminVars, probe >>

(* createChallan: addDoc of the data with timestamp: serverTimestamp() *)
createChallan(store, challanData, now) ==
  addDoc(store, [challanData EXCEPT !.timestamp = now])

JsonEntries == [vehicleNo : {SamplePlate}, charge : {750}, paid : BOOLEAN, time : {0}]
JsonFiles == UNION { [1..n -> JsonEntries] : n \in 1..MaxEntries }

(* the loop of addChallansFromJSON over the first n entries *)
RECURSIVE importEntries(_, _, _, _, _)
importEntries(store, userId, data, n, now) ==
  IF n = 0 THEN store
  ELSE LET entry == data[n]
           challanData ==
             [ vehicleNumber |-> entry.vehicleNo,
               vehicleType |-> "Car",
               violationType |-> "No-Entry Zone Violation",
               location |-> "Unknown",
               amount |-> entry.charge,
               status |-> IF entry.paid THEN "paid" ELSE "pending",
               userId |-> userId,
               timestamp |-> entry.time,
               dimensions |-> NoDimensions,
               paidAt |-> NoTime,
               paymentMethod |-> NoMethod,
               via |-> "json" ]
       IN createChallan(importEntries(store, userId, data, n - 1, now), challanData, now)

(* addChallansFromJSON: written entries up to the first failing createChallan *)
addChallansFromJSON ==
  /\ \E data \in JsonFiles :
       \E written \in 0..Len(data) :
         /\ Len(challans) + written <= MaxChallans
         /\ challans' = importEntries(challans, "user123", data, written, clock)
  /\ UNCHANGED << capVars, clock, payVars, adminVars, probe >>

(* ---------------------------- AdminDashboard --------------------------- *)

(* a counter that holds NaN (undefined++ on a key the map does not have) *)
NaN == 0 - 1

(* vehicleData.json: statistics, the object every recomputation starts from *)
vehicleDataStatistics ==
  [ totalChallans |-> 0, pendingChallans |-> 0, paidChallans |-> 0,
    totalRevenue |-> 0,
    violationStats |-> [v \in ViolationTypes |-> 0],
    vehicleTypeStats |-> [t \in VehicleTypes |-> 0] ]

(* stats.violationStats[key]++ *)
Increment(map, key) ==
  IF key \in DOMAIN map
    THEN [map EXCEPT ![key] = IF @ = NaN THEN NaN ELSE @ + 1]
    ELSE [k \in DOMAIN map \cup {key} |-> IF k = key THEN NaN ELSE map[k]]

(* the object the handler starts from: a fresh copy of the file's statistics, *)
(* whatever the component's statistics state holds                           *)
freshStats_accumulate(prev) == prev

freshStats(prev) == vehicleDataStatistics

(* the body of querySnapshot.forEach for one document *)
countDoc(stats, challan) ==
  [ stats EXCEPT
      !.totalChallans = @ + 1,
      !.paidChallans = IF challan.status = "paid" THEN @ + 1 ELSE @,
      !.totalRevenue = IF challan.status = "paid" THEN @ + challan.amount ELSE @,
      !.pendingChallans = IF challan.status = "paid" THEN @ ELSE @ + 1,
      !.violationStats = Increment(@, challan.violationType),
      !.vehicleTypeStats = Increment(@, challan.vehicleType) ]

(* querySnapshot.forEach over the documents from the i-th on *)
RECURSIVE forEachDoc(_, _, _)
forEachDoc(stats, docs, i) ==
  IF i > Len(docs) THEN stats
  ELSE forEachDoc(countDoc(stats, docs[i]), docs, i + 1)

(* the onSnapshot listener of the mount effect handles a snapshot of the     *)
(* collection: setStatistics(stats)                                          *)
onSnapshot ==
  /\ statistics' = forEachDoc(freshStats(statistics), challans, 1)
  /\ delivered' = 1 - delivered
  /\ UNCHANGED << capVars, storeVars, payVars, probe >>

(* ------------------------------ payment -------------------------------- *)

(* payChallan calls in flight are counted by kind: the id and whether the   *)
(* challan was Pending when the call was made                               *)
CallKinds == Ids \X BOOLEAN

RECURSIVE CountCalls(_, _)
CountCalls(calls, kinds) ==
  IF kinds = {} THEN 0
  ELSE LET c == CHOOSE x \in kinds : TRUE
       IN calls[c] + CountCalls(calls, kinds \ {c})

(* payChallan(challanId) is called: its updateDoc is in flight *)
payChallanCall ==
  /\ CountCalls(payCalls, CallKinds) < MaxPayCalls
  /\ \E id \in Ids :
       LET c == << id, Exists(id) /\ challans[id].status = "pending" >>
       IN payCalls' = [payCalls EXCEPT ![c] = @ + 1]
  /\ UNCHANGED << capVars, adminVars, probe, storeVars, page, lastPay >>

(* the fields payChallan writes *)
payChallanFields_pending(now) == [status |-> "pending", paidAt |-> now]

payChallanFields_reprice(now) == [status |-> "paid", paidAt |-> now, amount |-> 0]

payChallanFields(now) == [status |-> "paid", paidAt |-> now]

(* payChallan resolves when its updateDoc was applied; the catch block logs  *)
(* and rethrows otherwise                                                    *)
payChallanResolves_swallow(applied) == TRUE

payChallanResolves(applied) == applied

(* the updateDoc of a payChallan call settles: the store applies it to an    *)
(* existing document, and rejects it otherwise                               *)
payChallanSettles ==
  /\ \E c \in CallKinds, storeOk \in BOOLEAN :
       LET id == c[1]
           applied == Exists(id) /\ storeOk
       IN /\ payCalls[c] > 0
          /\ applied => clock < MaxClock
          /\ IF applied
               THEN /\ challans' = updateDoc(challans, id, payChallanFields(clock))
                    /\ clock' = clock + 1
               ELSE UNCHANGED << challans, clock >>
          /\ lastPay' = [id |-> id, ok |-> payChallanResolves(applied)]
          /\ payCalls' = [payCalls EXCEPT ![c] = @ - 1]
  /\ UNCHANGED << capVars, adminVars, probe, page >>

(* The route /user/challan-payment/:id binds the parameter RouteParam; the   *)
(* page reads PageParam from useParams(). 0 is undefined.                    *)
RouteParam == "id"
PageParam_id == "id"

PageParam == "challanId"
useParams(key, value) == IF key = RouteParam THEN value ELSE 0

PageClosed ==
  [ mounted |-> FALSE, challanId |-> 0, challan |-> FALSE, loading |-> TRUE,
    error |-> "", processing |-> FALSE, paymentMethod |-> NoMethod,
    showSuccess |-> FALSE ]

(* ChallanPayment mounts on the route with :id = rid and runs fetchChallan *)
openPaymentPage ==
  /\ ~page.mounted
  /\ \E rid \in Ids, getOk \in BOOLEAN :
       LET challanId == useParams(PageParam, rid) IN
       page' = [ PageClosed EXCEPT
                   !.mounted = TRUE,
                   !.challanId = challanId,
                   !.loading = FALSE,
                   !.error = IF challanId = 0 THEN "Challan ID not found"
                             ELSE IF ~getOk THEN "Failed to load challan details"
                             ELSE IF ~Exists(challanId) THEN "Challan not found"
                             ELSE "",
                   !.challan = challanId # 0 /\ getOk /\ Exists(challanId) ]
  /\ UNCHANGED << capVars, adminVars, probe, storeVars, payCalls, lastPay >>

(* what the page renders *)
pageView ==
  IF page.loading THEN "loading"
  ELSE IF page.error # "" THEN "error"
  ELSE IF ~page.challan THEN "notfound"
  ELSE IF page.showSuccess THEN "success"
  ELSE "form"

(* the fields handlePayment writes *)
handlePaymentFields(now, method) ==
  [status |-> "paid", paidAt |-> now, paymentMethod |-> method]

(* handlePayment of the page *)
handlePayment(storeOk) ==
  IF ~page.challan \/ page.paymentMethod = NoMethod
    THEN UNCHANGED << page, storeVars, lastPay >>
    ELSE LET id == page.challanId
             ok == Exists(id) /\ storeOk
         IN /\ ok => clock < MaxClock
            /\ IF ok
                 THEN /\ challans' = updateDoc(challans, id,
                                        handlePaymentFields(clock, page.paymentMethod))
                      /\ clock' = clock + 1
                      /\ page' = [page EXCEPT !.showSuccess = TRUE]
                 ELSE /\ page' = [page EXCEPT !.error = "Failed to process payment"]
                      /\ UNCHANGED << challans, clock >>
            /\ lastPay' = [id |-> id, ok |-> ok]

(* the buttons the rendered view offers *)
PageButtons ==
  CASE pageView = "form" ->
         {"cancel", "card", "wallet"}
           \cup (IF page.paymentMethod # NoMethod /\ ~page.processing
                   THEN {"pay"} ELSE {})
    [] pageView = "success" -> {"redirect"}
    [] pageView \in {"error", "notfound"} -> {"back"}
    [] OTHER -> {}

(* a click on the mounted page (or the redirect timeout after a success) *)
pageEvent ==
  /\ page.mounted
  /\ \E button \in PageButtons, storeOk \in BOOLEAN :
       CASE button = "pay" -> handlePayment(storeOk)
         [] button \in Methods ->
              /\ page' = [page EXCEPT !.paymentMethod = button]
              /\ UNCHANGED << storeVars, lastPay >>
         [] OTHER ->
              /\ page' = PageClosed
              /\ UNCHANGED << storeVars, lastPay >>
  /\ UNCHANGED << capVars, adminVars, probe, payCalls >>

(* ---------------------------- specification ---------------------------- *)

NoPay == [id |-> 0, ok |-> FALSE]

(* the state after the components have mounted *)
InitProgram ==
  /\ permPending = TRUE
  /\ cameraPermission = FALSE
  /\ isWebcamActive = FALSE
  /\ processingInterval = NoHandle
  /\ timers = {}
  /\ webcamRef = FALSE
  /\ uploadedVideo = FALSE
  /\ isProcessing = FALSE
  /\ processingMessage = ""
  /\ location = "Main Street No-Entry Zone"
  /\ imageLoads = <<>>
  /\ cycles = <<>>
  /\ violations = <<>>
  /\ showSuccessAlert = FALSE
  /\ showErrorAlert = FALSE
  /\ errorMessage = ""
  /\ challans = <<>>
  /\ clock = 0
  /\ payCalls = [c \in CallKinds |-> 0]
  /\ page = PageClosed
  /\ lastPay = NoPay
  /\ statistics = vehicleDataStatistics
  /\ delivered = 0

NoProbe == [fn |-> "none", arg |-> <<>>, done |-> FALSE, out |-> <<>>]

Init == InitProgram /\ probe = NoProbe

(* the capture component, with the records its cycles create *)
NextCapture ==
  \/ getUserMediaSettles
  \/ setLocation
  \/ toggleWebcam
  \/ handleWebcamCapture
  \/ handleVideoUpload
  \/ handleProcessVideo
  \/ eventLoopTask
  \/ detectVehiclesSettles
  \/ vehicleStep
  \/ handleGenerateChallan

SpecCapture == Init /\ [][NextCapture]_vars

(* the webcam session: permission, start and stop, location, Capture Frame  *)
NextSession ==
  \/ getUserMediaSettles
  \/ setLocation
  \/ toggleWebcam
  \/ handleWebcamCapture
  \/ eventLoopTask
  \/ detectVehiclesSettles
  \/ vehicleStep
  \/ handleGenerateChallan

SpecSession == Init /\ [][NextSession]_vars

(* the detection cycles on an uploaded video *)
NextCycle ==
  \/ setLocation
  \/ handleVideoUpload
  \/ handleProcessVideo
  \/ detectVehiclesSettles
  \/ vehicleStep
  \/ handleGenerateChallan

SpecCycle == Init /\ [][NextCycle]_vars

(* the record store: every operation that writes it, the cycles being       *)
(* started by Process Video                                                 *)
NextStore ==
  \/ handleVideoUpload
  \/ handleProcessVideo
  \/ detectVehiclesSettles
  \/ vehicleStep
  \/ handleAddChallan
  \/ addChallansFromJSON
  \/ payChallanCall
  \/ payChallanSettles
  \/ openPaymentPage
  \/ pageEvent

SpecStore == Init /\ [][NextStore]_vars

(* the dashboard's statistics over the records the manual entry, the JSON   *)
(* import and the payments produce                                           *)
NextStats ==
  \/ handleAddChallan
  \/ addChallansFromJSON
  \/ payChallanCall
  \/ payChallanSettles
  \/ onSnapshot

SpecStats == Init /\ [][NextStats]_vars

(* the dashboard's statistics over the records the detection cycles and the  *)
(* manual entry produce                                                      *)
NextStatsAuto ==
  \/ handleVideoUpload
  \/ handleProcessVideo
  \/ detectVehiclesSettles
  \/ vehicleStep
  \/ handleAddChallan
  \/ onSnapshot

SpecStatsAuto == Init /\ [][NextStatsAuto]_vars

Next ==
  \/ getUserMediaSettles
  \/ setLocation
  \/ toggleWebcam
  \/ handleWebcamCapture
  \/ handleVideoUpload
  \/ handleProcessVideo
  \/ eventLoopTask
  \/ detectVehiclesSettles
  \/ vehicleStep
  \/ handleGenerateChallan
  \/ handleAddChallan
  \/ addChallansFromJSON
  \/ payChallanCall
  \/ payChallanSettles
  \/ openPaymentPage
  \/ pageEvent
  \/ onSnapshot

Spec == Init /\ [][Next]_vars

(* ------------------- the pure functions on their own -------------------- *)

(* dimensions in hundredths of a metre around the classifier's thresholds *)
DimensionInputs ==
  [ width : {129, 130, 199, 200, 229, 230, 259, 260},
    height : {179, 180, 249, 250, 349, 350},
    length : {249, 250, 499, 500, 599, 600, 1199, 1200},
    den : {100} ]

(* contours on and around the bounds of the region filter *)
ContourInputs ==
  { [width |-> 40,  height |-> 40, area |-> 1200],
    [width |-> 40,  height |-> 40, area |-> 1000],
    [width |-> 20,  height |-> 40, area |-> 1200],
    [width |-> 19,  height |-> 40, area |-> 1200],
    [width |-> 100, height |-> 40, area |-> 3000],
    [width |-> 101, height |-> 40, area |-> 3000] }

FrameInputs == UNION { [1..n -> ContourInputs] : n \in 1..2 }

(* recognized texts: the plates of the validation examples, two plates in    *)
(* one text, a plate inside other text, near misses                          *)
PlateTexts ==
  { <<"A","B","1","2","C","D","3","4","5","6">>,
    <<"A","B"," ","1","2"," ","C","D"," ","3","4","5","6">>,
    <<"A","B","1","C","D","3","4","5">>,
    <<"A","B","1","2","C","D","3","4","5","6"," ","C","D","3","4","A","B","1","2","5","6">>,
    <<"X","A","B"," "," ","1","2","C","D"," ","3","4","5","6","X">>,
    <<"A","B","1","2"," ","C","D","3","4","5"," ","A","B"," ","1","2","C","D","3","4","5","6">>,
    <<"a","b","1","2","c","d","3","4","5","6">>,
    <<"A","B","1","2","C","D","3","4","5">>,
    <<"A"," ","B","1","2","C","D","3","4","5","6">>,
    <<>> }

PlateInputs ==
  { [ok |-> TRUE, text |-> t] : t \in PlateTexts } \cup { [ok |-> FALSE, text |-> <<>>] }

(* bounding boxes in pixels and camera parameters *)
BoxInputs == [width : {1, 20, 40}, height : {30, 40}]

ParamInputs == [focalLength : {35, 50}, sensorWidth : {235, 360}, distance : {5, 10000}]

ProbeInputs ==
  { [fn |-> "classifyVehicleType", arg |-> d, done |-> FALSE, out |-> <<>>] :
      d \in DimensionInputs }
    \cup { [fn |-> "detectVehicles", arg |-> cs, done |-> FALSE, out |-> <<>>] :
             cs \in FrameInputs }
    \cup { [fn |-> "detectNumberPlate", arg |-> o, done |-> FALSE, out |-> <<>>] :
             o \in PlateInputs }
    \cup { [fn |-> "calculateVehicleDimensions",
             arg |-> [boundingBox |-> b, cameraParams |-> c],
             done |-> FALSE, out |-> <<>>] : b \in BoxInputs, c \in ParamInputs }

InitPure == InitProgram /\ probe \in ProbeInputs

(* classifyVehicleType(dimensions) is called and returns *)
classifyCall ==
  /\ probe.fn = "classifyVehicleType" /\ ~probe.done
  /\ probe' = [probe EXCEPT !.done = TRUE, !.out = classifyVehicleType(probe.arg)]
  /\ UNCHANGED << capVars, storeVars, payVars, adminVars >>

(* detectVehicles(imageElement) resolves, the frame's contours being arg *)
detectCall ==
  /\ probe.fn = "detectVehicles" /\ ~probe.done
  /\ probe' = [probe EXCEPT !.done = TRUE, !.out = detectVehicles(probe.arg)]
  /\ UNCHANGED << capVars, storeVars, payVars, adminVars >>

(* detectNumberPlate(imageData) resolves, arg being what the OCR returns *)
plateCall ==
  /\ probe.fn = "detectNumberPlate" /\ ~probe.done
  /\ probe' = [probe EXCEPT !.done = TRUE, !.out = detectNumberPlate(probe.arg)]
  /\ UNCHANGED << capVars, storeVars, payVars, adminVars >>

(* calculateVehicleDimensions(boundingBox, cameraParams) is called *)
dimensionsCall ==
  /\ probe.fn = "calculateVehicleDimensions" /\ ~probe.done
  /\ probe' = [probe EXCEPT
                 !.done = TRUE,
                 !.out = calculateVehicleDimensions(probe.arg.boundingBox,
                                                    probe.arg.cameraParams)]
  /\ UNCHANGED << capVars, storeVars, payVars, adminVars >>

NextPure ==
  \/ classifyCall
  \/ detectCall
  \/ plateCall
  \/ dimensionsCall

SpecPure == InitPure /\ [][NextPure]_vars

(* ------------------------------- claims -------------------------------- *)

InFlight == Len(cycles)
Statuses == {"pending", "paid"}

(* a payChallan call of kind c settles in this step *)
Settles(c) == payCalls[c] > 0 /\ payCalls' = [payCalls EXCEPT ![c] = @ - 1]

(* C1: in an active capture session at most one detection cycle            *)
(* (processFrame) is in flight at any time.                                 *)
C1_SingleFlight == isWebcamActive => InFlight <= 1

(* C2: a trigger (manual or timer) arriving while a cycle is in flight      *)
(* starts no second cycle.                                                  *)
C2_NoSecondCycle == [][InFlight >= 1 => InFlight' <= InFlight]_vars

(* C3: of two concurrent payment attempts on one Pending challan the        *)
(* second observes Paid and fails: a call issued while the challan was      *)
(* Pending that settles once it is Paid reports failure and writes nothing. *)
C3_FirstPaymentWins ==
  [][\A c \in CallKinds :
       (Settles(c) /\ c[2] /\ challans[c[1]].status = "paid")
         => (~lastPay'.ok /\ challans' = challans)]_vars

(* C4: a payment action on a challan that is already Paid returns a         *)
(* failure and leaves the record (paidAt, paymentMethod, every field)       *)
(* unchanged.                                                               *)
C4_PaidIsFinal ==
  [][\A c \in CallKinds :
       (Settles(c) /\ Exists(c[1]) /\ challans[c[1]].status = "paid")
         => (~lastPay'.ok /\ challans' = challans)]_vars

(* C5: for every challan, paidAt and paymentMethod are set if and only if   *)
(* its status is Paid.                                                      *)
C5_PaidFieldsIffPaid ==
  \A id \in 1..Len(challans) :
    (challans[id].paidAt # NoTime /\ challans[id].paymentMethod # NoMethod)
      <=> challans[id].status = "paid"

(* C6: a challan's status only moves Pending -> Paid: no step turns a Paid  *)
(* record back, removes a record, or writes a status other than pending     *)
(* and paid.                                                                *)
C6_StatusMonotone ==
  [][ /\ Len(challans') >= Len(challans)
      /\ \A id \in 1..Len(challans') : challans'[id].status \in Statuses
      /\ \A id \in 1..Len(challans) :
           challans[id].status = "paid" => challans'[id].status = "paid" ]_vars

(* C6 witness: the only record of the store has been paid twice, the       *)
(* second time as a Paid record, and is Paid.                               *)
C6_Witness ==
  /\ Len(challans) = 1 /\ clock = 2
  /\ challans[1].status = "paid" /\ challans[1].paidAt = 1

(* C8: whenever the session is active a sampling timer is outstanding       *)
(* (processingInterval is non-null and its interval is live).               *)
C8_ActiveHasTimer ==
  isWebcamActive =>
    (processingInterval # NoHandle /\ \E t \in timers : t.id = processingInterval)

(* C9: when a cycle ends, in any outcome, during an active session, the     *)
(* timer is still armed, so that the next tick starts a new cycle.          *)
C9_LoopSurvivesCycle ==
  [][(isWebcamActive /\ InFlight' < InFlight) => timers' # {}]_vars

(* C10: a payment action on an id that is not in the store returns a        *)
(* failure and changes no record: none is created, none is modified.        *)
C10_MissingIdFails ==
  [][\A c \in CallKinds :
       (Settles(c) /\ ~Exists(c[1])) => (~lastPay'.ok /\ challans' = challans)]_vars

(* C10 witness: a payment on an id that is not in the store has settled     *)
(* with a failure while the store holds a record.                           *)
C10_Witness ==
  /\ lastPay.id > Len(challans) /\ ~lastPay.ok
  /\ Len(challans) >= 1

(* the sum of amount over the Paid records among the first n *)
RECURSIVE PaidAmount(_, _)
PaidAmount(docs, n) ==
  IF n = 0 THEN 0
  ELSE PaidAmount(docs, n - 1)
         + (IF docs[n].status = "paid" THEN docs[n].amount ELSE 0)

(* the records a payment operation has been applied to *)
PaidByPayment(docs) == { id \in 1..Len(docs) : docs[id].paidAt # NoTime }

(* the dashboard handles a snapshot in this step *)
Recomputed == delivered' # delivered

(* C11: the statistics recomputed after N create operations and M pay       *)
(* operations show totalChallans = N, paidChallans = M, pendingChallans =    *)
(* N - M and totalRevenue = the sum of amount over the Paid records.         *)
C11_StatisticsCounts ==
  [][Recomputed =>
       LET N == Len(challans')
           M == Cardinality(PaidByPayment(challans'))
       IN /\ statistics'.totalChallans = N
          /\ statistics'.paidChallans = M
          /\ statistics'.pendingChallans = N - M
          /\ statistics'.totalRevenue = PaidAmount(challans', N)]_vars

(* a per-type map recomputed from the records alone: the number of records  *)
(* of each type the map has a key for                                        *)
TypeCounts(base, docs, field) ==
  LET present == { docs[id][field] : id \in 1..Len(docs) }
  IN [ k \in DOMAIN base \cup present |->
         IF k \in DOMAIN base
           THEN base[k] + Cardinality({ id \in 1..Len(docs) : docs[id][field] = k })
           ELSE NaN ]

(* the Statistics of a record set, from the record set alone *)
FullRecompute(docs) ==
  LET paid == { id \in 1..Len(docs) : docs[id].status = "paid" }
  IN [ totalChallans |-> Len(docs),
       paidChallans |-> Cardinality(paid),
       pendingChallans |-> Len(docs) - Cardinality(paid),
       totalRevenue |-> PaidAmount(docs, Len(docs)),
       violationStats |->
         TypeCounts(vehicleDataStatistics.violationStats, docs, "violationType"),
       vehicleTypeStats |->
         TypeCounts(vehicleDataStatistics.vehicleTypeStats, docs, "vehicleType") ]

(* C12: the statistics published after a snapshot equal a full recompute     *)
(* over that snapshot's records, whatever the statistics were before: the    *)
(* counters and the per-type maps never accumulate across recomputations.    *)
C12_FullRecompute ==
  [][Recomputed => statistics' = FullRecompute(challans')]_vars

(* C12 witness: the dashboard has handled at least two snapshots, the last   *)
(* one over a store that holds records, and shows their number.              *)
C12_Witness ==
  /\ delivered = 0
  /\ Len(challans) >= 1
  /\ statistics.totalChallans = Len(challans)

(* C13: every challan the automatic detection pipeline creates stores       *)
(* amount = violationLookup[its violation type].amount                       *)
(*          + vehicleLookup[its vehicle type].baseAmount.                    *)
C13_AutoAmountAdditive ==
  \A id \in 1..Len(challans) :
    challans[id].via = "auto" =>
      challans[id].amount =
        violationLookup(challans[id].violationType).amount
          + vehicleLookup(challans[id].vehicleType).baseAmount

(* the fine of section 4.6 for a pair of types, read off the two tables *)
AdditiveFine(v, t) == violationLookup(v).amount + vehicleLookup(t).baseAmount

(* C14: the fine calculator is additive: for every enumerated pair of a      *)
(* violation type and a vehicle type getChallanAmount returns the violation  *)
(* amount plus the vehicle base amount, and every manually entered challan,  *)
(* whatever was created or paid before it, stores that sum for its types.    *)
C14_FineAdditive ==
  /\ \A v \in ViolationTypes, t \in VehicleTypes :
       getChallanAmount(v, t) = AdditiveFine(v, t)
  /\ \A id \in 1..Len(challans) :
       challans[id].via = "manual" =>
         /\ challans[id].amount
              = AdditiveFine(challans[id].violationType, challans[id].vehicleType)
         /\ challans[id].amount
              = getChallanAmount(challans[id].violationType, challans[id].vehicleType)

(* C14 witness: two manual entries of different vehicle types, the second    *)
(* made after the first, hold different amounts.                             *)
C14_Witness ==
  /\ Len(challans) = 2
  /\ challans[1].via = "manual" /\ challans[2].via = "manual"
  /\ challans[1].vehicleType # challans[2].vehicleType
  /\ challans[1].amount # challans[2].amount

(* the classifier's rules in their order, on dimensions in hundredths: the  *)
(* k-th rule applies when every listed dimension is below its threshold      *)
RuleTypes == << "Motorcycle", "Car", "Van", "Bus" >>

RuleApplies(k, d) ==
  CASE k = 1 -> d.width * 100 < 130 * d.den /\ d.length * 100 < 250 * d.den
    [] k = 2 -> d.width * 100 < 200 * d.den /\ d.height * 100 < 180 * d.den
                  /\ d.length * 100 < 500 * d.den
    [] k = 3 -> d.width * 100 < 230 * d.den /\ d.height * 100 < 250 * d.den
                  /\ d.length * 100 < 600 * d.den
    [] k = 4 -> d.width * 100 < 260 * d.den /\ d.height * 100 < 350 * d.den
                  /\ d.length * 100 < 1200 * d.den

FirstRule(d) ==
  LET applying == { k \in 1..4 : RuleApplies(k, d) }
  IN IF applying = {} THEN "Truck"
     ELSE RuleTypes[CHOOSE k \in applying : \A j \in applying : k <= j]

(* C15: classifyVehicleType returns, for every dimensions input, exactly     *)
(* one of the five vehicle types: the type of the first rule, in the order   *)
(* Motorcycle, Car, Van, Bus, that applies, and Truck when none does. The    *)
(* comparisons are strict: width 1.3 is not a Motorcycle, width 1.29 with    *)
(* length below 2.5 is.                                                      *)
C15_ClassifierFirstMatch ==
  (probe.fn = "classifyVehicleType" /\ probe.done) =>
    /\ probe.out \in {"Motorcycle", "Car", "Van", "Bus", "Truck"}
    /\ probe.out = FirstRule(probe.arg)
    /\ probe.arg.width = 130 => probe.out # "Motorcycle"
    /\ (probe.arg.width = 129 /\ probe.arg.length = 249) => probe.out = "Motorcycle"

(* C15 witness: the classifier has returned Car for width 1.3 with length    *)
(* 2.49, the input that a non-strict first rule would call a Motorcycle.     *)
C15_Witness ==
  /\ probe.fn = "classifyVehicleType" /\ probe.done
  /\ probe.arg.width = 130 /\ probe.arg.length = 249 /\ probe.arg.height = 179
  /\ probe.out = "Car"

(* C16: the region detector keeps a contour's bounding region if and only   *)
(* if area > 1000 and 0.5 <= width / height <= 2.5, both bounds inclusive.   *)
C16_RegionFilterInclusive ==
  (probe.fn = "detectVehicles" /\ probe.done) =>
    \A i \in 1..Len(probe.arg) :
      LET c == probe.arg[i] IN
      (\E j \in 1..Len(probe.out) : probe.out[j] = c)
        <=> (c.area > 1000 /\ 2 * c.width >= c.height /\ 2 * c.width <= 5 * c.height)

(* C17: in a detection cycle a challan is created for a region if and only  *)
(* if the plate extractor finds a pattern match in the region and the store  *)
(* write succeeds, and then exactly one, holding the matched plate; a region *)
(* with no match is skipped without a failure of the cycle, which goes on    *)
(* with the later regions of the frame.                                      *)
C17_ChallanIffPlate ==
  [][\A i \in 1..Len(cycles), canvas \in CanvasOutcomes,
        ocr \in OcrOutcomes, storeOk \in BOOLEAN :
       vehicleStepWith(i, canvas, ocr, storeOk) =>
         LET plate == IF canvas = "ok" THEN detectNumberPlate(ocr) ELSE <<>>
             n == Len(challans)
             rest == Tail(cycles[i].todo)
         IN /\ IF plate # <<>> /\ storeOk
                 THEN /\ Len(challans') = n + 1
                      /\ SubSeq(challans', 1, n) = challans
                      /\ challans'[n + 1].vehicleNumber = plate
                 ELSE challans' = challans
            /\ (canvas = "ok" /\ plate = <<>>) =>
                 /\ showErrorAlert' = showErrorAlert
                 /\ errorMessage' = errorMessage
                 /\ IF rest # <<>>
                      THEN /\ Len(cycles') = Len(cycles)
                           /\ cycles'[i].pc = "vehicle"
                           /\ cycles'[i].todo = rest
                      ELSE cycles' = Remove(cycles, i)]_vars

(* C17 witness: a cycle over a frame with two regions has passed the first   *)
(* without creating a challan and without failing, and is at the second.     *)
C17_Witness ==
  /\ challans = <<>> /\ ~showErrorAlert
  /\ \E i \in 1..Len(cycles) :
       cycles[i].pc = "vehicle" /\ cycles[i].index = 1 /\ Len(cycles[i].todo) = 1

(* a text that is a plate: ten characters other than whitespace, two        *)
(* uppercase letters, two digits, two uppercase letters, four digits, with   *)
(* whitespace only between these four groups                                 *)
NonSpace(p) == SelectSeq(p, LAMBDA ch : ch \notin Spaces)

IsPlate(p) ==
  LET q == NonSpace(p) IN
  /\ Len(q) = 10
  /\ \A k \in {1, 2, 5, 6} : q[k] \in Letters
  /\ \A k \in {3, 4, 7, 8, 9, 10} : q[k] \in Digits
  /\ p[1] \notin Spaces /\ p[Len(p)] \notin Spaces
  /\ \A k \in 1..Len(p) :
       p[k] \in Spaces => Len(NonSpace(SubSeq(p, 1, k - 1))) \in {2, 4, 6}

(* the places of a text where a plate starts *)
PlateStarts(t) ==
  { i \in 1..Len(t) : \E j \in i..Len(t) : IsPlate(SubSeq(t, i, j)) }

(* C18: plate validation accepts exactly two uppercase letters, two digits,  *)
(* two uppercase letters, four digits with optional whitespace between the   *)
(* groups: "AB12CD3456" and "AB 12 CD 3456" match, "AB1CD345" yields no      *)
(* plate, and of several matches in a text the leftmost is returned.         *)
C18_PlatePattern ==
  (probe.fn = "detectNumberPlate" /\ probe.done /\ probe.arg.ok) =>
    LET t == probe.arg.text
        starts == PlateStarts(t)
    IN /\ IF starts = {}
            THEN probe.out = <<>>
            ELSE LET first == CHOOSE i \in starts : \A k \in starts : i <= k
                 IN /\ IsPlate(probe.out)
                    /\ probe.out = SubSeq(t, first, first + Len(probe.out) - 1)
       /\ t = <<"A","B","1","2","C","D","3","4","5","6">> => probe.out = t
       /\ t = <<"A","B"," ","1","2"," ","C","D"," ","3","4","5","6">> => probe.out = t
       /\ t = <<"A","B","1","C","D","3","4","5">> => probe.out = <<>>

(* C18 witness: of the two plates in one recognized text the first has been  *)
(* returned.                                                                 *)
C18_Witness ==
  /\ probe.fn = "detectNumberPlate" /\ probe.done
  /\ Cardinality(PlateStarts(probe.arg.text)) = 2
  /\ probe.out = <<"A","B","1","2","C","D","3","4","5","6">>

(* C19: every challan is Pending at the moment it is created, on every      *)
(* creation path: each record a step adds to the store has status pending.   *)
C19_CreatedPending ==
  [][\A id \in (Len(challans) + 1)..Len(challans') :
       challans'[id].status = "pending"]_vars

(* the fields of a challan that are fixed at its creation *)
FixedFields ==
  { "amount", "vehicleNumber", "vehicleType", "violationType", "location",
    "timestamp", "userId" }

(* C20: a challan's amount is fixed at creation: no step, the payment        *)
(* action included, changes amount, vehicleNumber, vehicleType,              *)
(* violationType, location, timestamp or userId of an existing record; a     *)
(* payment changes status, paidAt and paymentMethod only.                    *)
C20_AmountFixed ==
  [][\A id \in 1..Len(challans) :
       /\ id <= Len(challans')
       /\ \A f \in DOMAIN challans[id] \ {"status", "paidAt", "paymentMethod"} :
            challans'[id][f] = challans[id][f]
       /\ \A f \in FixedFields : challans'[id][f] = challans[id][f]]_vars

(* C20 witness: a manually entered challan has been paid and holds the       *)
(* amount computed at its creation.                                          *)
C20_Witness ==
  \E id \in 1..Len(challans) :
    /\ challans[id].via = "manual"
    /\ challans[id].status = "paid" /\ challans[id].paidAt # NoTime
    /\ challans[id].amount
         = addChallanAmount(challans[id].violationType, challans[id].vehicleType)

(* C21: a store failure during challan creation in a detection cycle is     *)
(* surfaced to the caller as a failure, distinguishable from "no plate       *)
(* found": no step of the per-vehicle loop is at once the outcome of a       *)
(* failed store write for a region with a plate and the outcome of a region  *)
(* with no plate.                                                            *)
C21_StoreFailureDistinct ==
  [][\A i \in 1..Len(cycles), withPlate \in OcrOutcomes, noPlate \in OcrOutcomes :
       (detectNumberPlate(withPlate) # <<>> /\ detectNumberPlate(noPlate) = <<>>)
         => ~(/\ vehicleStepWith(i, "ok", withPlate, FALSE)
              /\ vehicleStepWith(i, "ok", noPlate, TRUE))]_vars

(* C22: starting a session while camera permission is not granted fails:    *)
(* the error is reported, the session stays inactive, no timer is created,   *)
(* no task is scheduled, and all other state is unchanged.                   *)
C22_StartNeedsPermission ==
  [][(toggleWebcam /\ ~isWebcamActive /\ ~cameraPermission) =>
       /\ showErrorAlert' /\ errorMessage' = "Camera permission is required"
       /\ ~isWebcamActive' /\ ~webcamRef'
       /\ timers' = {} /\ processingInterval' = NoHandle
       /\ Tasks' = Tasks
       /\ UNCHANGED << permPending, cameraPermission, uploadedVideo, isProcessing,
                       processingMessage, location, imageLoads, cycles, violations,
                       showSuccessAlert, storeVars, payVars, adminVars >>]_vars

(* C22 witness: the permission request was denied, a start was attempted     *)
(* and refused: the error is shown and the session is inactive.              *)
C22_Witness ==
  /\ ~permPending /\ ~cameraPermission
  /\ ~isWebcamActive /\ timers = {}
  /\ showErrorAlert /\ errorMessage = "Camera permission is required"

(* C23: every challan the automatic detection pipeline creates has the      *)
(* fixed no-entry-zone violation type, whatever the region, the plate or the *)
(* vehicle type; a challan of another violation type comes from the manual   *)
(* entry.                                                                    *)
C23_AutoViolationFixed ==
  \A id \in 1..Len(challans) :
    /\ challans[id].via = "auto"
         => challans[id].violationType = "No-Entry Zone Violation"
    /\ challans[id].violationType # "No-Entry Zone Violation"
         => challans[id].via = "manual"

(* C23 witness: the store holds an automatically created challan with the    *)
(* fixed violation type and a manual entry with another one.                 *)
C23_Witness ==
  \E a \in 1..Len(challans), b \in 1..Len(challans) :
    /\ challans[a].via = "auto"
    /\ challans[a].violationType = "No-Entry Zone Violation"
    /\ challans[b].via = "manual"
    /\ challans[b].violationType # "No-Entry Zone Violation"

(* equality of the fractions a / b and c / d *)
SameRatio(a, b, c, d) == a * d = c * b

(* C24: realWidth = pixelWidth * distance / focalLength, realHeight =        *)
(* pixelHeight * distance / focalLength and length = 2.5 * realWidth; with   *)
(* the camera parameters fixed, doubling pixelWidth doubles realWidth and    *)
(* length and leaves realHeight unchanged; sensorWidth has no influence.     *)
C24_DimensionsLinear ==
  (probe.fn = "calculateVehicleDimensions" /\ probe.done) =>
    LET b == probe.arg.boundingBox
        c == probe.arg.cameraParams
        d == probe.out
        twice == calculateVehicleDimensions([b EXCEPT !.width = 2 * @], c)
    IN /\ SameRatio(d.width, d.den, b.width * c.distance, c.focalLength)
       /\ SameRatio(d.height, d.den, b.height * c.distance, c.focalLength)
       /\ SameRatio(d.length, d.den, 5 * d.width, 2 * d.den)
       /\ SameRatio(twice.width, twice.den, 2 * d.width, d.den)
       /\ SameRatio(twice.length, twice.den, 2 * d.length, d.den)
       /\ SameRatio(twice.height, twice.den, d.height, d.den)
       /\ \A sw \in {235, 360} :
            LET other == calculateVehicleDimensions(b, [c EXCEPT !.sensorWidth = sw])
            IN /\ SameRatio(other.width, other.den, d.width, d.den)
               /\ SameRatio(other.height, other.den, d.height, d.den)
               /\ SameRatio(other.length, other.den, d.length, d.den)

(* C24 witness: the estimate for a box 20 px wide at distance 10000 with     *)
(* focal length 35 has been computed: 20 * 10000 / 35 metres wide.           *)
C24_Witness ==
  /\ probe.fn = "calculateVehicleDimensions" /\ probe.done
  /\ probe.arg.boundingBox.width = 20
  /\ probe.arg.cameraParams.distance = 10000
  /\ probe.arg.cameraParams.focalLength = 35
  /\ SameRatio(probe.out.width, probe.out.den, 200000, 35)

(* C25: the processing guard is held for the whole cycle: whenever a        *)
(* detection cycle is in flight, also while it awaits the vision, the OCR    *)
(* or the store, isProcessing is true.                                       *)
C25_GuardHeld == InFlight >= 1 => isProcessing

(* C26: with the camera parameters of the capture loop every region of a    *)
(* pixel width of at least 1 gets a real width of at least 2.6, so every     *)
(* automatically created challan has vehicle type Truck and amount 2500.     *)
C26_AlwaysTruck ==
  /\ \A b \in [width : {1, 2, 23, 40, 100}, height : {1, 40, 80}] :
       LET d == calculateVehicleDimensions(b, cameraParams)
       IN /\ 10 * d.width >= 26 * d.den
          /\ classifyVehicleType(d) = "Truck"
  /\ \A id \in 1..Len(challans) :
       challans[id].via = "auto" =>
         /\ 10 * challans[id].dimensions.width >= 26 * challans[id].dimensions.den
         /\ challans[id].vehicleType = "Truck"
         /\ challans[id].amount = 2500

(* C26 witness: a detection cycle has created a challan, a Truck of 2500.    *)
C26_Witness ==
  \E id \in 1..Len(challans) :
    /\ challans[id].via = "auto"
    /\ challans[id].vehicleType = "Truck" /\ challans[id].amount = 2500
    /\ challans[id].vehicleNumber # <<>>

(* C27: the payment page reads the route parameter challanId while the      *)
(* route binds id: on that route the page's id is always undefined, the page *)
(* ends in the "Challan ID not found" error state with loading false, and    *)
(* no click on the page issues a store update.                               *)
C27_RoutedPageNeverPays ==
  [][ /\ page'.mounted =>
           /\ page'.challanId = 0
           /\ ~page'.loading /\ ~page'.challan
           /\ page'.error = "Challan ID not found"
      /\ (openPaymentPage \/ pageEvent) => UNCHANGED << challans, clock, lastPay >> ]_vars

(* C27 witness: the page was opened on the route of a Pending challan and    *)
(* shows the error.                                                          *)
C27_Witness ==
  /\ page.mounted /\ page.error = "Challan ID not found" /\ ~page.loading
  /\ pageView = "error"
  /\ \E id \in 1..Len(challans) : challans[id].status = "pending"

(* the sum of the counters of a per-type map, NaN when one of them is NaN *)
RECURSIVE SumOver(_, _)
SumOver(map, keys) ==
  IF keys = {} THEN 0
  ELSE LET k == CHOOSE x \in keys : TRUE
           rest == SumOver(map, keys \ {k})
       IN IF map[k] = NaN \/ rest = NaN THEN NaN ELSE map[k] + rest

Listed(list) == { list[k] : k \in 1..Len(list) }

(* C30: Generate Challan on a listed violation never writes to the record   *)
(* store: it removes exactly that violation from the local list, keeps the  *)
(* order of the others, raises the success alert, and leaves every stored    *)
(* Challan as it was.                                                        *)
C30_GenerateNeverStores ==
  [][handleGenerateChallan =>
       /\ challans' = challans /\ clock' = clock
       /\ \E id \in Listed(violations) :
            /\ Listed(violations') = Listed(violations) \ {id}
            /\ violations' = SelectSeq(violations, LAMBDA v : v # id)
       /\ Len(violations') = Len(violations) - 1
       /\ showSuccessAlert']_vars

(* a stored Challan is no longer listed, and is still pending at its amount *)
C30_Witness ==
  /\ showSuccessAlert
  /\ \E id \in 1..Len(challans) :
       /\ id \notin Listed(violations)
       /\ challans[id].status = "pending"
       /\ challans[id].amount = 2500

=============================================================================
